---------------------------- MODULE Spec2Model ----------------------------
(***************************************************************************)
(* Attendance aggregation (src/lib/utils/stats.ts) together with the       *)
(* record store that feeds it (the firestore record modules).              *)
(*                                                                         *)
(* Instants are JavaScript Date values: whole milliseconds.  They are      *)
(* counted from the local midnight that starts Day 0 of the modelled       *)
(* window, which is the calendar date 2024-02-29 (a Thursday), so that the *)
(* window crosses a leap day, a month boundary and a weekend.  The local   *)
(* time zone has no daylight-saving shift inside the window.               *)
(***************************************************************************)
EXTENDS Integers, Sequences, FiniteSets, Bags, TLC

VARIABLES
    history,        \* the documents of the 'history' collections: a bag, since a
                    \* document's name is random and nothing reads it
    inTimestamp,    \* splitStayByDays: argument inTimestamp
    outTimestamp,   \* splitStayByDays: argument outTimestamp
    dailySplits,    \* splitStayByDays: the Map it returned
    membersStats,   \* compareMembersStats: argument, entries in insertion order
    compared,       \* compareMembersStats: the array it returned
    pc              \* which call has been made

vars == <<history, inTimestamp, outTimestamp, dailySplits, membersStats, compared, pc>>

---------------------------------------------------------------------------
(* Bounds of the model *)

\* last calendar day (counted from Day 0) on which an instant is drawn
MaxDay == 3
\* most documents the store holds
MaxRecords == 3
\* most entries of the mapping given to compareMembersStats
MaxMembers == 3

---------------------------------------------------------------------------
(* Time: Date, date-fns *)

MsPerSecond == 1000
MsPerMinute == MsPerSecond * 60
MsPerDay == 24 * 60 * MsPerMinute
\* minutes of a full middle day
FullDayMinutes == 1440

\* an instant on day d at h:m:s.ms local time
At(d, h, m, s, ms) == d * MsPerDay + ((h * 60 + m) * 60 + s) * MsPerSecond + ms

\* the proleptic Gregorian date <<year, month, day>> of a day counted from 1970-01-01
CivilFromDays(n) ==
    LET z == n + 719468
        era == z \div 146097
        doe == z - era * 146097
        yoe == (doe - doe \div 1460 + doe \div 36524 - doe \div 146096) \div 365
        doy == doe - (365 * yoe + yoe \div 4 - yoe \div 100)
        mp == (5 * doy + 2) \div 153
        d == doy - (153 * mp + 2) \div 5 + 1
        m == IF mp < 10 THEN mp + 3 ELSE mp - 9
        y == yoe + era * 400 + (IF m <= 2 THEN 1 ELSE 0)
    IN  <<y, m, d>>

\* the day counted from 1970-01-01 of the date <<year, month, day>>
DaysFromCivil(key) ==
    LET y == key[1] - (IF key[2] <= 2 THEN 1 ELSE 0)
        era == y \div 400
        yoe == y - era * 400
        mp == IF key[2] > 2 THEN key[2] - 3 ELSE key[2] + 9
        doy == (153 * mp + 2) \div 5 + key[3] - 1
        doe == yoe * 365 + yoe \div 4 - yoe \div 100 + doy
    IN  era * 146097 + doe - 719468

\* days from 1970-01-01 to Day 0
EpochDayOfDay0 == DaysFromCivil(<<2024, 2, 29>>)

\* the calendar dates of the days of the modelled window, computed once
WindowDates == [ d \in 0..(MaxDay + 1) |-> CivilFromDays(EpochDayOfDay0 + d) ]

\* format(date, 'yyyy-MM-dd'): the local calendar date, as <<yyyy, MM, dd>>
formatDateKey(date) == WindowDates[date \div MsPerDay]

\* parseISO('yyyy-MM-dd'): the local midnight that starts that date
parseISO(dateKey) == (DaysFromCivil(dateKey) - EpochDayOfDay0) * MsPerDay

\* Date.getDay(): 0 is Sunday ... 6 is Saturday (1970-01-01 was a Thursday)
getDay(date) == (EpochDayOfDay0 + date \div MsPerDay + 4) % 7

isWeekend(date) == getDay(date) = 0 \/ getDay(date) = 6

startOfDay(date) == date - (date % MsPerDay)

\* setHours(23, 59, 59, 999)
endOfDay(date) == startOfDay(date) + MsPerDay - 1

addDays(date, amount) == date + amount * MsPerDay

isBefore(date, dateToCompare) == date < dateToCompare

\* whole minutes between two instants, truncated toward zero
differenceInMinutes(dateLeft, dateRight) ==
    IF dateLeft >= dateRight
    THEN (dateLeft - dateRight) \div MsPerMinute
    ELSE -((dateRight - dateLeft) \div MsPerMinute)

\* Math.round(x / (1000 * 60)): the nearest integer, halves rounded up
RoundMinutes(ms) == (2 * ms + MsPerMinute) \div (2 * MsPerMinute)

---------------------------------------------------------------------------
(* Map<string, number>, as a function from keys to numbers *)

EmptyMap == <<>>

MapGetOr0(map, k) == IF k \in DOMAIN map THEN map[k] ELSE 0

MapSet(map, k, v) == [x \in (DOMAIN map) \cup {k} |-> IF x = k THEN v ELSE map[x]]

RECURSIVE SumOver(_, _)
SumOver(map, keys) ==
    IF keys = {} THEN 0
    ELSE LET k == CHOOSE x \in keys : TRUE
         IN  map[k] + SumOver(map, keys \ {k})

MapSum(map) == SumOver(map, DOMAIN map)

---------------------------------------------------------------------------
(* splitStayByDays *)

\* the loop over the middle days; it ends on the day of outTimestamp
RECURSIVE MiddleDays(_, _, _)
MiddleDays(result, currentDay, outTs) ==
    IF formatDateKey(currentDay) # formatDateKey(outTs)
    THEN MiddleDays(MapSet(result, formatDateKey(currentDay), FullDayMinutes),
                    addDays(currentDay, 1), outTs)
    ELSE <<result, currentDay>>

\* first day: from the check-in to endOfDay of that day
firstDayDuration(inTs) == differenceInMinutes(endOfDay(inTs), inTs)

splitStayByDays(inTs, outTs) ==
    IF formatDateKey(inTs) = formatDateKey(outTs)
    THEN MapSet(EmptyMap, formatDateKey(inTs), differenceInMinutes(outTs, inTs))
    ELSE LET first == MapSet(EmptyMap, formatDateKey(inTs), firstDayDuration(inTs))
             loop == MiddleDays(first, addDays(inTs, 1), outTs)
             result == loop[1]
             currentDay == loop[2]
         IN  IF formatDateKey(currentDay) = formatDateKey(outTs)
             THEN MapSet(result, formatDateKey(currentDay),
                         differenceInMinutes(outTs, startOfDay(outTs)))
             ELSE result

---------------------------------------------------------------------------
(* Firestore Timestamp *)

\* Timestamp.fromDate
fromDate(date) ==
    [ seconds |-> date \div MsPerSecond,
      nanoseconds |-> (date % MsPerSecond) * 1000000 ]

\* Timestamp.toDate
toDate(timestamp) == timestamp.seconds * MsPerSecond + timestamp.nanoseconds \div 1000000

\* the order of two Timestamps in a query
TimestampLeq(a, b) ==
    a.seconds < b.seconds \/ (a.seconds = b.seconds /\ a.nanoseconds <= b.nanoseconds)

---------------------------------------------------------------------------
(* Array.prototype.sort and orderBy: a stable sort by a comparator *)

\* mutant of LaterFirst: the comparator's operands exchanged
EarlierFirst(a, b) == a.timestamp - b.timestamp > 0

\* (a, b) => b.timestamp.getTime() - a.timestamp.getTime() is positive
LaterFirst(a, b) == b.timestamp - a.timestamp > 0

\* mutant of LargerFirst: equal totals count as out of order
LargerOrEqualFirst(a, b) == b.totalTime - a.totalTime >= 0

\* (a, b) => b.totalTime - a.totalTime is positive
LargerFirst(a, b) == b.totalTime - a.totalTime > 0

\* timestamp ascending; documents with one timestamp keep their order
LaterTimestamp(a, b) == ~TimestampLeq(a.timestamp, b.timestamp)

\* whether the named comparator puts a after b (compare(a, b) > 0)
After(comparator, a, b) ==
    CASE comparator = "LaterFirst" -> LaterFirst(a, b)
      [] comparator = "LargerFirst" -> LargerFirst(a, b)
      [] comparator = "LaterTimestamp" -> LaterTimestamp(a, b)

\* x goes before the first element that must follow it
InsertSorted(sorted, x, comparator) ==
    LET later == { i \in 1..Len(sorted) : After(comparator, sorted[i], x) }
        p == IF later = {} THEN Len(sorted) + 1
             ELSE CHOOSE i \in later : \A j \in later : i <= j
    IN  SubSeq(sorted, 1, p - 1) \o <<x>> \o SubSeq(sorted, p, Len(sorted))

SortBy(array, comparator) ==
    LET sortedPrefix[k \in 0..Len(array)] ==
            IF k = 0 THEN <<>>
            ELSE InsertSorted(sortedPrefix[k - 1], array[k], comparator)
    IN  sortedPrefix[Len(array)]

---------------------------------------------------------------------------
(* calculateStats *)

\* !record.duration: the duration is undefined or 0
NoDuration(record) == ~record.hasDuration \/ record.duration = 0

TypeIs(records, type) == SelectSeq(records, LAMBDA r : r.type = type)

\* the check-in candidates of a check-out: those before it
CandidatesBefore(inRecords, outRecord) ==
    SelectSeq(inRecords, LAMBDA inRecord : isBefore(inRecord.timestamp, outRecord.timestamp))

\* the filtered, sorted array whose element [0] is matchingInRecord
\* (the empty array when matchingInRecord is undefined)
matchingInRecords(inRecords, outRecord) ==
    SortBy(CandidatesBefore(inRecords, outRecord), "LaterFirst")

\* mutant of AddSplits: a day's minutes replace those already held
RECURSIVE SetSplits(_, _, _)
SetSplits(dailyMinutes, splits, days) ==
    IF days = {} THEN dailyMinutes
    ELSE LET day == CHOOSE d \in days : TRUE
         IN  SetSplits(MapSet(dailyMinutes, day, splits[day]), splits, days \ {day})

\* dailySplits.forEach: add each day's minutes to dailyMinutes
RECURSIVE AddSplits(_, _, _)
AddSplits(dailyMinutes, splits, days) ==
    IF days = {} THEN dailyMinutes
    ELSE LET day == CHOOSE d \in days : TRUE
         IN  AddSplits(MapSet(dailyMinutes, day, MapGetOr0(dailyMinutes, day) + splits[day]),
                       splits, days \ {day})

\* mutant of AddOutRecord: a check-out without a match is dropped
AddMatchedOutRecord(dailyMinutes, inRecords, outRecord) ==
    IF NoDuration(outRecord) THEN dailyMinutes
    ELSE LET matching == matchingInRecords(inRecords, outRecord)
         IN  IF matching # <<>>
             THEN LET splits == splitStayByDays(matching[1].timestamp, outRecord.timestamp)
                  IN  AddSplits(dailyMinutes, splits, DOMAIN splits)
             ELSE dailyMinutes

\* the body of outRecords.forEach for one check-out
AddOutRecord(dailyMinutes, inRecords, outRecord) ==
    IF NoDuration(outRecord) THEN dailyMinutes
    ELSE LET matching == matchingInRecords(inRecords, outRecord)
         IN  IF matching # <<>>
             THEN LET splits == splitStayByDays(matching[1].timestamp, outRecord.timestamp)
                  IN  AddSplits(dailyMinutes, splits, DOMAIN splits)
             ELSE LET day == formatDateKey(outRecord.timestamp)
                  IN  MapSet(dailyMinutes, day, MapGetOr0(dailyMinutes, day) + outRecord.duration)

RECURSIVE FoldOutRecords(_, _, _)
FoldOutRecords(dailyMinutes, inRecords, outRecords) ==
    IF outRecords = <<>> THEN dailyMinutes
    ELSE FoldOutRecords(AddOutRecord(dailyMinutes, inRecords, Head(outRecords)),
                        inRecords, Tail(outRecords))

\* the dailyMinutes map calculateStats builds
statsDailyMinutes(records) ==
    FoldOutRecords(EmptyMap, TypeIs(records, "in"), TypeIs(records, "out"))

\* averageTime is the quotient num / den
StatsOf(dailyMinutes) ==
    LET totalTime == MapSum(dailyMinutes)
        daysPresent == Cardinality(DOMAIN dailyMinutes)
    IN  [ totalTime |-> totalTime,
          averageTime |-> IF daysPresent > 0
                          THEN [num |-> totalTime, den |-> daysPresent]
                          ELSE [num |-> 0, den |-> 1],
          daysPresent |-> daysPresent ]

calculateStats(records) ==
    IF Len(records) = 0
    THEN [totalTime |-> 0, averageTime |-> [num |-> 0, den |-> 1], daysPresent |-> 0]
    ELSE StatsOf(statsDailyMinutes(records))

---------------------------------------------------------------------------
(* calculatePeriodStats *)

\* records.forEach: a check-out with a duration adds it to the day of its timestamp
RECURSIVE periodDailyMinutesFrom(_, _)
periodDailyMinutesFrom(dailyMinutes, records) ==
    IF records = <<>> THEN dailyMinutes
    ELSE LET record == Head(records)
             day == formatDateKey(record.timestamp)
         IN  periodDailyMinutesFrom(
                 IF record.type = "out" /\ ~NoDuration(record)
                 THEN MapSet(dailyMinutes, day, MapGetOr0(dailyMinutes, day) + record.duration)
                 ELSE dailyMinutes,
                 Tail(records))

periodDailyMinutes(records) == periodDailyMinutesFrom(EmptyMap, records)

\* the day of an instant, counted from 1970-01-01
DayNumber(date) == EpochDayOfDay0 + date \div MsPerDay

\* startOfWeek with the ja locale, in days: the Sunday on or before the day
startOfWeek(day) == day - ((day + 4) % 7)

\* the day that is 1 January of a year
StartOfYear(year) == DaysFromCivil(<<year, 1, 1>>)

\* getWeekYear with the ja locale (the first week holds 1 January)
getWeekYear(date) ==
    LET year == formatDateKey(date)[1]
    IN  IF DayNumber(date) >= startOfWeek(StartOfYear(year + 1)) THEN year + 1
        ELSE IF DayNumber(date) >= startOfWeek(StartOfYear(year)) THEN year
        ELSE year - 1

\* getWeek with the ja locale
getWeek(date) ==
    (startOfWeek(DayNumber(date)) - startOfWeek(StartOfYear(getWeekYear(date)))) \div 7 + 1

\* the local week of the year of the days of the modelled window, computed once
WindowWeeks == [ d \in 0..(MaxDay + 1) |-> getWeek(d * MsPerDay) ]

\* format(date, "yyyy-'W'ww", { locale: ja }), as <<yyyy, ww>>
formatWeekKey(date) == <<formatDateKey(date)[1], WindowWeeks[date \div MsPerDay]>>

\* format(date, 'yyyy-MM'), as <<yyyy, MM>>
formatMonthKey(date) == <<formatDateKey(date)[1], formatDateKey(date)[2]>>

\* the week key or the month key of a date
BucketKey(unit, date) ==
    IF unit = "week" THEN formatWeekKey(date) ELSE formatMonthKey(date)

\* the day keys of dailyMinutes that fall in one week or month, summed and counted
GroupStats(dailyMinutes, unit) ==
    LET buckets == { BucketKey(unit, parseISO(dateKey)) : dateKey \in DOMAIN dailyMinutes }
        daysOf(bucket) ==
            { dateKey \in DOMAIN dailyMinutes : BucketKey(unit, parseISO(dateKey)) = bucket }
    IN  [ bucket \in buckets |->
            LET total == SumOver(dailyMinutes, daysOf(bucket))
                days == Cardinality(daysOf(bucket))
            IN  [ totalTime |-> total,
                  averageTime |-> IF days > 0 THEN [num |-> total, den |-> days]
                                  ELSE [num |-> 0, den |-> 1],
                  daysPresent |-> days ] ]

\* mutant of weekendKeys: only Sunday counts as the weekend
sundayKeys(dailyMinutes) ==
    { dateKey \in DOMAIN dailyMinutes : getDay(parseISO(dateKey)) = 0 }

\* the day keys that go to weekendMinutes
weekendKeys(dailyMinutes) ==
    { dateKey \in DOMAIN dailyMinutes : isWeekend(parseISO(dateKey)) }

\* the day keys that go to weekdayMinutes
weekdayKeys(dailyMinutes) ==
    { dateKey \in DOMAIN dailyMinutes : ~isWeekend(parseISO(dateKey)) }

\* the dailyMinutes entries of a set of day keys
Restrict(dailyMinutes, keys) == [ k \in keys |-> dailyMinutes[k] ]

\* startDate and endDate are not read
calculatePeriodStats(records) ==
    LET dailyMinutes == periodDailyMinutes(records)
    IN  [ daily |-> [ dateKey \in DOMAIN dailyMinutes |->
                        [ totalTime |-> dailyMinutes[dateKey],
                          averageTime |-> [num |-> dailyMinutes[dateKey], den |-> 1],
                          daysPresent |-> 1 ] ],
          weekly |-> GroupStats(dailyMinutes, "week"),
          monthly |-> GroupStats(dailyMinutes, "month"),
          weekday |-> StatsOf(Restrict(dailyMinutes, weekdayKeys(dailyMinutes))),
          weekend |-> StatsOf(Restrict(dailyMinutes, weekendKeys(dailyMinutes))),
          total |-> StatsOf(dailyMinutes) ]

---------------------------------------------------------------------------
(* compareMembersStats *)

\* membersStats.forEach pushes the entries in insertion order
compareMembersStats(stats) ==
    SortBy([ i \in 1..Len(stats) |->
               [name |-> stats[i].name, totalTime |-> stats[i].stats.totalTime] ],
           "LargerFirst")

---------------------------------------------------------------------------
(* The record store: records/{memberId}/history *)

\* the documents getLastInRecord's query matches
lastInCandidates(docs, memberId) ==
    { d \in BagToSet(docs) : d.memberId = memberId /\ d.type = "in" /\ d.deleted = FALSE }

\* getLastInRecord: <<>> for null, else the one record found.  Of several
\* check-ins with the latest timestamp any may come first; only the timestamp
\* of the result is read.
getLastInRecord(docs, memberId) ==
    LET found == lastInCandidates(docs, memberId)
    IN  IF found = {} THEN <<>>
        ELSE LET doc == CHOOSE d \in found :
                          \A e \in found : TimestampLeq(e.timestamp, d.timestamp)
             IN  << [ memberId |-> doc.memberId, type |-> doc.type,
                      timestamp |-> toDate(doc.timestamp) ] >>

Max(a, b) == IF a >= b THEN a ELSE b

\* mutant of clampDuration: the duration is stored as computed
unclampedDuration(durationMinutes) == durationMinutes

\* record.duration = Math.max(0, durationMinutes)
clampDuration(durationMinutes) == Max(0, durationMinutes)

\* the document addRecord stores; a field that is not set is marked absent
\* and holds a zero
newRecord(docs, memberId, type, timestamp) ==
    LET lastInRecord == getLastInRecord(docs, memberId)
        found == type = "out" /\ lastInRecord # <<>>
    IN  [ memberId |-> memberId,
          type |-> type,
          timestamp |-> fromDate(timestamp),
          deleted |-> FALSE,
          hasDuration |-> type = "out",
          duration |-> IF found
                       THEN clampDuration(RoundMinutes(timestamp - lastInRecord[1].timestamp))
                       ELSE 0,
          hasInTimestamp |-> found,
          inTimestamp |-> IF found THEN fromDate(lastInRecord[1].timestamp) ELSE fromDate(0) ]

\* the documents of a bag, each as often as it is held, in some order
RECURSIVE Listing(_)
Listing(docs) ==
    IF docs = EmptyBag THEN <<>>
    ELSE LET d == CHOOSE x \in BagToSet(docs) : TRUE
         IN  <<d>> \o Listing(docs (-) SetToBag({d}))

\* mutant of notDeleted: the filter keeps every document
deletedOrNot(doc) == TRUE

\* .filter(doc => !doc.data().deleted)
notDeleted(doc) == ~doc.deleted

\* getRecordsForPeriod
getRecordsForPeriod(docs, memberId, startDate, endDate) ==
    LET start == fromDate(startDate)
        end == fromDate(endDate)
        inPeriod == SelectSeq(Listing(docs), LAMBDA d :
                        /\ d.memberId = memberId
                        /\ TimestampLeq(start, d.timestamp)
                        /\ TimestampLeq(d.timestamp, end))
        ordered == SortBy(inPeriod, "LaterTimestamp")
        kept == SelectSeq(ordered, notDeleted)
    IN  [ i \in 1..Len(kept) |->
            [ memberId |-> kept[i].memberId,
              type |-> kept[i].type,
              timestamp |-> toDate(kept[i].timestamp),
              hasDuration |-> kept[i].hasDuration,
              duration |-> kept[i].duration ] ]

\* getRecentRecords at the instant now: startDate.setDate(getDate() - days)
getRecentRecords(docs, memberId, now, days) ==
    getRecordsForPeriod(docs, memberId, addDays(now, -days), now)

---------------------------------------------------------------------------
(* The store's operations *)

Members == {"m1", "m2"}

\* Friday 2024-03-01 23:00:00 and 23:30:00, Saturday 2024-03-02 01:00:30
FridayLate == At(1, 23, 0, 0, 0)
FridayLater == At(1, 23, 30, 0, 0)
SaturdayEarly == At(2, 1, 0, 30, 0)

\* the calls of addRecord that are drawn: member m1 checks in or out at any
\* of the three instants, member m2 checks in on Friday 23:30:00 or out on
\* Saturday 01:00:30
AddInputs ==
    { <<"m1", type, timestamp>> :
        type \in {"in", "out"}, timestamp \in {FridayLate, FridayLater, SaturdayEarly} }
    \cup { <<"m2", "in", FridayLater>>, <<"m2", "out", SaturdayEarly>> }

\* the data of an update: a field that is not given is absent
NoUpdate == [type |-> "", hasTimestamp |-> FALSE, timestamp |-> 0,
             hasDuration |-> FALSE, duration |-> 0]

\* the data that are drawn: a duration of 45 minutes
UpdateData == { [NoUpdate EXCEPT !.hasDuration = TRUE, !.duration = 45] }

InitStore ==
    /\ history = EmptyBag
    /\ pc = "store"
    /\ inTimestamp = 0
    /\ outTimestamp = 0
    /\ dailySplits = EmptyMap
    /\ membersStats = <<>>
    /\ compared = <<>>

NotStore == <<inTimestamp, outTimestamp, dailySplits, membersStats, compared, pc>>

addRecord(memberId, type, timestamp) ==
    /\ BagCardinality(history) < MaxRecords
    /\ history' = history (+) SetToBag({newRecord(history, memberId, type, timestamp)})
    /\ UNCHANGED NotStore

\* the fields updateRecord writes
updated(doc, data) ==
    [ doc EXCEPT
        !.type = IF data.type # "" THEN data.type ELSE @,
        !.timestamp = IF data.hasTimestamp THEN fromDate(data.timestamp) ELSE @,
        !.hasDuration = IF data.hasDuration THEN TRUE ELSE @,
        !.duration = IF data.hasDuration THEN data.duration ELSE @ ]

\* doc is the document named recordId; updateDoc needs it to exist in the
\* member's collection
updateRecord(memberId, doc, data) ==
    /\ BagIn(doc, history)
    /\ doc.memberId = memberId
    /\ history' = (history (-) SetToBag({doc})) (+) SetToBag({updated(doc, data)})
    /\ UNCHANGED NotStore

\* doc is the document named recordId
deleteRecord(memberId, doc) ==
    /\ BagIn(doc, history)
    /\ doc.memberId = memberId
    /\ history' = (history (-) SetToBag({doc})) (+) SetToBag({[doc EXCEPT !.deleted = TRUE]})
    /\ UNCHANGED NotStore

Next ==
    \/ \E input \in AddInputs :
          addRecord(input[1], input[2], input[3])
    \/ \E memberId \in Members, doc \in BagToSet(history), data \in UpdateData :
          updateRecord(memberId, doc, data)
    \/ \E memberId \in Members, doc \in BagToSet(history) :
          deleteRecord(memberId, doc)

Spec == InitStore /\ [][Next]_vars

---------------------------------------------------------------------------
(* The event lists given to the aggregation *)

\* the whole modelled window, and Saturday 2024-03-02 alone
Periods ==
    { <<At(0, 0, 0, 0, 0), At(MaxDay + 1, 0, 0, 0, 0)>>,
      <<At(2, 0, 0, 0, 0), At(2, 23, 59, 59, 999)>> }

MemberRecords(memberId, period) == getRecordsForPeriod(history, memberId, period[1], period[2])

\* the records of all members combined
CombinedRecords(period) == MemberRecords("m1", period) \o MemberRecords("m2", period)

MemberLists == { MemberRecords(m, p) : m \in Members, p \in Periods }

\* one member's records, the other's, and both combined, for every period
EventLists ==
    UNION { LET first == MemberRecords("m1", p)
                second == MemberRecords("m2", p)
            IN  {first, second, first \o second} : p \in Periods }

\* the positions of the check-outs of a list that carry a duration
OutsWithDuration(records) ==
    { i \in 1..Len(records) : records[i].type = "out" /\ ~NoDuration(records[i]) }

\* the positions of the check-ins of a list strictly before an instant
InsBefore(records, instant) ==
    { i \in 1..Len(records) : records[i].type = "in" /\ records[i].timestamp < instant }

\* the array calculateStats takes matchingInRecord from, for the check-out at position i
MatchOf(records, i) == matchingInRecords(TypeIs(records, "in"), records[i])

IsSorted(records) ==
    \A i, j \in 1..Len(records) : i < j => records[i].timestamp <= records[j].timestamp

---------------------------------------------------------------------------
(* Interval reconstruction: properties *)

\* C3: for every check-out that carries a duration, the check-in used is the
\* check-in with the greatest timestamp strictly earlier than the check-out,
\* whatever the order of the list; a check-in at or after the check-out is
\* never selected, and with no check-in strictly earlier there is no match.
C3_NearestPrecedingMatch ==
    \A records \in EventLists : \A i \in OutsWithDuration(records) :
        LET match == MatchOf(records, i)
            before == InsBefore(records, records[i].timestamp)
        IN  IF before = {}
            THEN match = <<>>
            ELSE /\ match # <<>>
                 /\ \E j \in before : records[j] = match[1]
                 /\ \A j \in before : records[j].timestamp <= match[1].timestamp

\* a list out of chronological order in which a check-out with a duration has
\* two check-ins at different instants before it
C3_Witness ==
    \E records \in EventLists :
        /\ ~IsSorted(records)
        /\ \E i \in OutsWithDuration(records) :
              \E j, k \in InsBefore(records, records[i].timestamp) :
                  records[j].timestamp < records[k].timestamp

\* the minutes of the stay that ends at the check-out at position i, or its
\* stored duration when it has no match
ContributionOf(records, i) ==
    LET match == MatchOf(records, i)
    IN  IF match # <<>>
        THEN MapSum(splitStayByDays(match[1].timestamp, records[i].timestamp))
        ELSE records[i].duration

RECURSIVE SumContributions(_, _)
SumContributions(records, positions) ==
    IF positions = {} THEN 0
    ELSE LET i == CHOOSE x \in positions : TRUE
         IN  ContributionOf(records, i) + SumContributions(records, positions \ {i})

\* C4 as claimed: a check-in is the matching check-in of at most one
\* check-out, so of two check-outs at different instants no two are paired
\* with one check-in.
C4_CheckInUsedOnce ==
    \A records \in MemberLists : \A i, j \in OutsWithDuration(records) :
        (records[i].timestamp < records[j].timestamp
            /\ MatchOf(records, i) # <<>> /\ MatchOf(records, j) # <<>>)
        => MatchOf(records, i)[1] # MatchOf(records, j)[1]

\* C4 amended: calculateStats selects the check-in for each check-out on its
\* own.  Of two check-outs with durations and no check-in from the first up to
\* the second, the second is paired with the check-in of the first, and the
\* total is the sum of every check-out's whole stay: a span two stays share is
\* counted twice.
C4_CheckInReused ==
    \A records \in MemberLists :
        /\ \A i, j \in OutsWithDuration(records) :
              (/\ records[i].timestamp <= records[j].timestamp
               /\ MatchOf(records, i) # <<>>
               /\ \A k \in InsBefore(records, records[j].timestamp) :
                     records[k].timestamp < records[i].timestamp)
              => /\ MatchOf(records, j) # <<>>
                 /\ MatchOf(records, j)[1].timestamp = MatchOf(records, i)[1].timestamp
        /\ MapSum(statsDailyMinutes(records))
              = SumContributions(records, OutsWithDuration(records))

\* in(t0), out(t1), out(t2) with t0 < t1 < t2 and no other check-in
C4_Witness ==
    \E records \in MemberLists :
        /\ Len(records) = 3
        /\ records[1].type = "in" /\ records[2].type = "out" /\ records[3].type = "out"
        /\ records[1].timestamp < records[2].timestamp
        /\ records[2].timestamp < records[3].timestamp
        /\ OutsWithDuration(records) = {2, 3}
        /\ MapSum(statsDailyMinutes(records))
              > MapSum(splitStayByDays(records[1].timestamp, records[3].timestamp))

\* the minutes the check-out at position i of a list adds to a day
DayContribution(records, i, day) ==
    LET match == MatchOf(records, i)
    IN  IF match # <<>>
        THEN MapGetOr0(splitStayByDays(match[1].timestamp, records[i].timestamp), day)
        ELSE IF formatDateKey(records[i].timestamp) = day THEN records[i].duration ELSE 0

RECURSIVE SumDayContributions(_, _, _)
SumDayContributions(records, positions, day) ==
    IF positions = {} THEN 0
    ELSE LET i == CHOOSE x \in positions : TRUE
         IN  DayContribution(records, i, day)
               + SumDayContributions(records, positions \ {i}, day)

\* the date keys of the days of the modelled window
AllDayKeys == { formatDateKey(At(d, 0, 0, 0, 0)) : d \in 0..(MaxDay + 1) }

\* C5 as claimed: in the events of several members combined every check-out is
\* matched with a check-in of its own member, and the minutes of every day are
\* those of the members' own lists added up.
C5_PairingPerMember ==
    \A p \in Periods :
        LET records == CombinedRecords(p)
        IN  /\ \A i \in OutsWithDuration(records) :
                  MatchOf(records, i) # <<>>
                    => MatchOf(records, i)[1].memberId = records[i].memberId
            /\ \A day \in AllDayKeys :
                  MapGetOr0(statsDailyMinutes(records), day)
                    = MapGetOr0(statsDailyMinutes(MemberRecords("m1", p)), day)
                        + MapGetOr0(statsDailyMinutes(MemberRecords("m2", p)), day)

\* C6: a check-out with no check-in strictly before it adds exactly its stored
\* duration to the day of its own timestamp and to no other day, and nothing
\* when it has no duration; a single check-out with a duration gives
\* totalTime = duration and daysPresent = 1.
C6_UnmatchedCheckOut ==
    \A records \in EventLists :
        LET daily == statsDailyMinutes(records)
            outs == OutsWithDuration(records)
        IN  /\ \A day \in AllDayKeys :
                  MapGetOr0(daily, day) = SumDayContributions(records, outs, day)
            /\ \A i \in outs :
                  MatchOf(records, i) = <<>> => formatDateKey(records[i].timestamp) \in DOMAIN daily
            /\ (outs = {} /\ Len(records) > 0) => daily = EmptyMap
            /\ (Len(records) = 1 /\ outs = {1}) =>
                  /\ daily = MapSet(EmptyMap, formatDateKey(records[1].timestamp),
                                    records[1].duration)
                  /\ calculateStats(records).totalTime = records[1].duration
                  /\ calculateStats(records).daysPresent = 1

\* the list is one check-out of 30 minutes with no check-in
C6_Witness ==
    \E records \in EventLists :
        /\ Len(records) = 1
        /\ records[1].type = "out" /\ records[1].duration = 30
        /\ calculateStats(records).totalTime = 30
        /\ calculateStats(records).daysPresent = 1

---------------------------------------------------------------------------
(* Period rollup: properties *)

Min(a, b) == IF a <= b THEN a ELSE b

\* the whole minutes of the stay from inTs to outTs that lie inside a day
ClippedMinutes(inTs, outTs, day) ==
    LET from == Max(inTs, parseISO(day))
        to == Min(outTs, parseISO(day) + MsPerDay)
    IN  IF to > from THEN differenceInMinutes(to, from) ELSE 0

RECURSIVE SumClipped(_, _, _)
SumClipped(records, positions, day) ==
    IF positions = {} THEN 0
    ELSE LET i == CHOOSE x \in positions : TRUE
         IN  ClippedMinutes(MatchOf(records, i)[1].timestamp, records[i].timestamp, day)
               + SumClipped(records, positions \ {i}, day)

\* every check-out with a duration has a check-in before it
AllMatched(records) ==
    \A i \in OutsWithDuration(records) : MatchOf(records, i) # <<>>

\* C7 as claimed: the per-day minutes calculatePeriodStats rolls up are, for
\* every day, the parts of the reconstructed stays that lie inside that day,
\* and its total agrees with calculateStats on totalTime and daysPresent.
C7_PeriodDailyInvariant ==
    \A records \in MemberLists :
        AllMatched(records) =>
            /\ \A day \in AllDayKeys :
                  MapGetOr0(periodDailyMinutes(records), day)
                    = SumClipped(records, OutsWithDuration(records), day)
            /\ calculatePeriodStats(records).total.totalTime
                  = calculateStats(records).totalTime
            /\ calculatePeriodStats(records).total.daysPresent
                  = calculateStats(records).daysPresent

\* C8: every day key of the daily map is in exactly one of the weekday and
\* weekend partitions, so their daysPresent and totalTime add up to the total's.
C8_WeekendPartition ==
    \A records \in EventLists :
        LET daily == periodDailyMinutes(records)
            stats == calculatePeriodStats(records)
        IN  /\ DOMAIN stats.daily = DOMAIN daily
            /\ weekdayKeys(daily) \cup weekendKeys(daily) = DOMAIN daily
            /\ weekdayKeys(daily) \cap weekendKeys(daily) = {}
            /\ stats.weekday.daysPresent + stats.weekend.daysPresent
                  = stats.total.daysPresent
            /\ stats.weekday.totalTime + stats.weekend.totalTime = stats.total.totalTime

\* a list with minutes on a weekday and on a weekend day
C8_Witness ==
    \E records \in EventLists :
        /\ calculatePeriodStats(records).weekday.daysPresent >= 1
        /\ calculatePeriodStats(records).weekend.daysPresent >= 1
        /\ calculatePeriodStats(records).weekday.totalTime > 0
        /\ calculatePeriodStats(records).weekend.totalTime > 0

---------------------------------------------------------------------------
(* Soft deletion *)

\* deleteRecord is the only writer of deleted = true and nothing writes it
\* back: the documents on which deleteRecord has succeeded are the documents
\* that hold deleted = true
DeletedCount(docs) ==
    BagCardinality([ d \in { x \in BagToSet(docs) : x.deleted } |-> docs[d] ])

DeletedIsPermanent == [][DeletedCount(history') >= DeletedCount(history)]_vars

\* what a returned Record shows of a document
RecordOf(doc) ==
    [ memberId |-> doc.memberId, type |-> doc.type, timestamp |-> toDate(doc.timestamp),
      hasDuration |-> doc.hasDuration, duration |-> doc.duration ]

\* how many documents of a member within a period that are not deleted show
\* as the given record
LiveCount(docs, memberId, startDate, endDate, record) ==
    LET start == fromDate(startDate)
        end == fromDate(endDate)
        live == { d \in BagToSet(docs) :
                    /\ ~d.deleted /\ d.memberId = memberId
                    /\ TimestampLeq(start, d.timestamp)
                    /\ TimestampLeq(d.timestamp, end)
                    /\ RecordOf(d) = record }
    IN  BagCardinality([ d \in live |-> docs[d] ])

\* a returned list holds each record exactly as often as documents that are
\* not deleted show as it: no entry of the list is left for a deleted document
OnlyLive(records, docs, memberId, startDate, endDate) ==
    \A i \in 1..Len(records) :
        Cardinality({ j \in 1..Len(records) : records[j] = records[i] })
            = LiveCount(docs, memberId, startDate, endDate, records[i])

\* the calls of addRecord drawn where deletion is looked at: member m1 checks
\* in on Friday 23:00:00 or 23:30:00 or out on Saturday 01:00:30, member m2
\* checks in on Friday 23:30:00 or out on Saturday 01:00:30
SoftDeleteAddInputs ==
    { <<"m1", "in", FridayLate>>, <<"m1", "in", FridayLater>>,
      <<"m1", "out", SaturdayEarly>>,
      <<"m2", "in", FridayLater>>, <<"m2", "out", SaturdayEarly>> }

\* the data of an update drawn there: the type made "in", or the timestamp
\* moved to Saturday 01:00:30
SoftDeleteUpdateData ==
    { [NoUpdate EXCEPT !.type = "in"],
      [NoUpdate EXCEPT !.hasTimestamp = TRUE, !.timestamp = SaturdayEarly] }

NextSoftDelete ==
    \/ \E input \in SoftDeleteAddInputs :
          addRecord(input[1], input[2], input[3])
    \/ \E memberId \in Members, doc \in BagToSet(history), data \in SoftDeleteUpdateData :
          updateRecord(memberId, doc, data)
    \/ \E memberId \in Members, doc \in BagToSet(history) :
          deleteRecord(memberId, doc)

SpecSoftDelete == InitStore /\ [][NextSoftDelete]_vars

\* the whole modelled window, which getRecordsForPeriod is called with
Window == <<At(0, 0, 0, 0, 0), At(MaxDay + 1, 0, 0, 0, 0)>>

\* the instant getRecentRecords is called at, Saturday 2024-03-02 00:00:00
\* with the documents of Saturday still ahead, and its default days
Now == At(2, 0, 0, 0, 0)
DefaultDays == 7

\* the instants a later check-out is added at
LaterOuts == { FridayLater, SaturdayEarly }

\* C11: no record on which deleteRecord has succeeded is in the list returned
\* by getRecordsForPeriod or getRecentRecords, and the check-in getLastInRecord
\* gives addRecord for the duration of a later check-out is never a deleted one:
\* it is the latest check-in of the member that is not deleted, and there is
\* none when every check-in of the member is deleted.
C11_DeletedExcluded ==
    \A memberId \in Members :
        /\ OnlyLive(getRecordsForPeriod(history, memberId, Window[1], Window[2]),
                    history, memberId, Window[1], Window[2])
        /\ OnlyLive(getRecentRecords(history, memberId, Now, DefaultDays),
                    history, memberId, addDays(Now, -DefaultDays), Now)
        /\ LET liveIns == { d \in BagToSet(history) :
                               d.memberId = memberId /\ d.type = "in" /\ ~d.deleted }
           IN  \A timestamp \in LaterOuts :
                 LET record == newRecord(history, memberId, "out", timestamp)
                 IN  IF liveIns = {}
                     THEN ~record.hasInTimestamp /\ record.duration = 0
                     ELSE /\ record.hasInTimestamp
                          /\ \E d \in liveIns :
                                /\ d.timestamp = record.inTimestamp
                                /\ \A e \in liveIns : TimestampLeq(e.timestamp, d.timestamp)
                                /\ record.duration
                                     = Max(0, RoundMinutes(timestamp - toDate(d.timestamp)))

\* a check-in of member m1 that updateRecord moved to Saturday 01:00:30 is
\* deleted, the check-in of Friday 23:00:00 is not, and the check-out of Saturday
\* 01:00:30 holds the 121 minutes from 23:00:00; the list returned for m1 has
\* the two records that are not deleted, the recent list the one before Saturday
C11_Witness ==
    /\ \E d \in BagToSet(history) :
          /\ d.memberId = "m1" /\ d.type = "in" /\ d.deleted /\ ~d.hasDuration
          /\ toDate(d.timestamp) = SaturdayEarly
    /\ \E d \in BagToSet(history) :
          d.memberId = "m1" /\ d.type = "in" /\ ~d.deleted /\ toDate(d.timestamp) = FridayLate
    /\ \E d \in BagToSet(history) :
          /\ d.memberId = "m1" /\ d.type = "out" /\ ~d.deleted
          /\ toDate(d.timestamp) = SaturdayEarly
          /\ d.hasInTimestamp /\ toDate(d.inTimestamp) = FridayLate /\ d.duration = 121
    /\ Len(getRecordsForPeriod(history, "m1", Window[1], Window[2])) = 2
    /\ Len(getRecentRecords(history, "m1", Now, DefaultDays)) = 1
    /\ newRecord(history, "m1", "out", SaturdayEarly).inTimestamp = fromDate(FridayLate)

---------------------------------------------------------------------------
(* The day splitter applied to a drawn pair of instants *)

TimesOfDay ==
    { At(0, 0, 0, 0, 0), At(0, 0, 0, 30, 0), At(0, 1, 0, 0, 0), At(0, 1, 0, 30, 0),
      At(0, 1, 0, 50, 0), At(0, 10, 0, 0, 0), At(0, 22, 59, 10, 0), At(0, 23, 0, 0, 0),
      At(0, 23, 59, 59, 999) }

Instants == { addDays(t, d) : t \in TimesOfDay, d \in 0..MaxDay }

InitSplit ==
    /\ inTimestamp \in Instants
    /\ outTimestamp \in Instants
    /\ isBefore(inTimestamp, outTimestamp)
    /\ dailySplits = EmptyMap
    /\ pc = "call"
    /\ history = EmptyBag
    /\ membersStats = <<>>
    /\ compared = <<>>

SplitStay ==
    /\ pc = "call"
    /\ dailySplits' = splitStayByDays(inTimestamp, outTimestamp)
    /\ pc' = "returned"
    /\ UNCHANGED <<history, inTimestamp, outTimestamp, membersStats, compared>>

NextSplit == SplitStay

SpecSplit == InitSplit /\ [][NextSplit]_vars

---------------------------------------------------------------------------
(* Day splitter: properties *)

Abs(x) == IF x < 0 THEN -x ELSE x

\* the calendar days from the day of a to the day of b, as date keys
DayKeysBetween(a, b) ==
    { formatDateKey(addDays(startOfDay(a), k)) :
        k \in 0..((startOfDay(b) - startOfDay(a)) \div MsPerDay) }

\* the local midnight that ends the day of an instant
NextMidnight(date) == startOfDay(date) + MsPerDay

\* C1: the minutes splitStayByDays returns add up to round(elapsed minutes)
\* between checkIn and checkOut, within 1 minute.
C1_Conservation ==
    pc = "returned" =>
        Abs(MapSum(dailySplits) - RoundMinutes(outTimestamp - inTimestamp)) <= 1

\* What the code does keep: the sum never exceeds round(elapsed minutes) and
\* falls short of it by at most 2 minutes.
SplitWithinTwoMinutes ==
    pc = "returned" =>
        LET lost == RoundMinutes(outTimestamp - inTimestamp) - MapSum(dailySplits)
        IN  0 <= lost /\ lost <= 2

\* C2: a stay over several calendar days has one entry per day from the day of
\* checkIn to the day of checkOut: the first day holds the minutes from checkIn
\* to the midnight that ends it, every day between holds 1440, the last day
\* holds the minutes from its midnight to checkOut (Day1 23:00 to Day3 01:00
\* gives 60, 1440, 60).
C2_MultiDaySplit ==
    (pc = "returned" /\ formatDateKey(inTimestamp) # formatDateKey(outTimestamp)) =>
        /\ DOMAIN dailySplits = DayKeysBetween(inTimestamp, outTimestamp)
        /\ \A k \in DOMAIN dailySplits :
              dailySplits[k] =
                IF k = formatDateKey(inTimestamp)
                THEN differenceInMinutes(NextMidnight(inTimestamp), inTimestamp)
                ELSE IF k = formatDateKey(outTimestamp)
                THEN differenceInMinutes(outTimestamp, startOfDay(outTimestamp))
                ELSE FullDayMinutes

\* What the code does keep of C2: the days, the middle days and the last day.
SplitDaysAndTail ==
    (pc = "returned" /\ formatDateKey(inTimestamp) # formatDateKey(outTimestamp)) =>
        /\ DOMAIN dailySplits = DayKeysBetween(inTimestamp, outTimestamp)
        /\ \A k \in DOMAIN dailySplits :
              k # formatDateKey(inTimestamp) =>
                dailySplits[k] =
                  IF k = formatDateKey(outTimestamp)
                  THEN differenceInMinutes(outTimestamp, startOfDay(outTimestamp))
                  ELSE FullDayMinutes

---------------------------------------------------------------------------
(* The comparator applied to a drawn mapping *)

MemberNames == <<"A", "B", "C", "D", "E">>

TotalTimes == {0, 120, 300}

StatsWithTotal(total) ==
    [ totalTime |-> total,
      averageTime |-> [num |-> total, den |-> 1],
      daysPresent |-> IF total > 0 THEN 1 ELSE 0 ]

\* the mappings of at most MaxMembers entries: the keys of a Map are distinct
MembersStatsInputs ==
    UNION { { m \in [1..n -> [name : {MemberNames[i] : i \in 1..MaxMembers},
                               stats : {StatsWithTotal(t) : t \in TotalTimes}]] :
                \A i, j \in 1..n : i # j => m[i].name # m[j].name } :
            n \in 0..MaxMembers }

InitCompare ==
    /\ membersStats \in MembersStatsInputs
    /\ compared = <<>>
    /\ pc = "call"
    /\ history = EmptyBag
    /\ inTimestamp = 0
    /\ outTimestamp = 0
    /\ dailySplits = EmptyMap

CompareMembers ==
    /\ pc = "call"
    /\ compared' = compareMembersStats(membersStats)
    /\ pc' = "returned"
    /\ UNCHANGED <<history, inTimestamp, outTimestamp, dailySplits, membersStats>>

NextCompare == CompareMembers

SpecCompare == InitCompare /\ [][NextCompare]_vars

\* the position of a name in the mapping's iteration order
PositionOf(name) == CHOOSE i \in 1..Len(membersStats) : membersStats[i].name = name

\* C10: compareMembersStats returns one {name, totalTime} pair per entry of
\* the mapping, ordered by non-increasing totalTime, entries with equal
\* totalTime in the mapping's iteration order; {A:120, B:300, C:300} gives
\* B, C, A.
C10_ComparatorOrdering ==
    pc = "returned" =>
        /\ Len(compared) = Len(membersStats)
        /\ { compared[i].name : i \in 1..Len(compared) }
              = { membersStats[i].name : i \in 1..Len(membersStats) }
        /\ \A i \in 1..Len(compared) :
              compared[i] = [ name |-> compared[i].name,
                              totalTime |-> membersStats[PositionOf(compared[i].name)]
                                              .stats.totalTime ]
        /\ \A i, j \in 1..Len(compared) :
              i < j =>
                /\ compared[i].totalTime >= compared[j].totalTime
                /\ compared[i].totalTime = compared[j].totalTime
                     => PositionOf(compared[i].name) < PositionOf(compared[j].name)

\* the mapping {A:120, B:300, C:300} has been compared and gave B, C, A
C10_Witness ==
    /\ pc = "returned"
    /\ [ i \in 1..Len(membersStats) |->
            <<membersStats[i].name, membersStats[i].stats.totalTime>> ]
          = << <<"A", 120>>, <<"B", 300>>, <<"C", 300>> >>
    /\ [ i \in 1..Len(compared) |-> compared[i].name ] = <<"B", "C", "A">>

=============================================================================
